---- MODULE Spec2Model ----
(***************************************************************************)
(* Model of the "Blind Vision Assistant" page component of Mob-Sarthi       *)
(* (src/app/page.tsx, second component, lines 214-443): the detection loop *)
(* with its busy flag, the label history and getStableLabel, the throttled *)
(* speak(), the voice-command handler and React's render/effect cycle that *)
(* decides which values each callback's closure holds.                    *)
(*                                                                         *)
(* `state` holds the useState cells.  The setters called by one callback    *)
(* are batched: React commits one render of the new values and runs the    *)
(* effects whose dependencies changed before the next callback runs, so a  *)
(* callback's action ends with that commit.  A callback created by an      *)
(* effect keeps the values of the render that ran the effect (its `env`);  *)
(* the refs (detectingRef, recentLabels, lastAnnouncementTime) are shared. *)
(***************************************************************************)
EXTENDS Integers, Sequences, FiniteSets, TLC

VARIABLES
    state,                 \* the useState cells, as of the last commit
    modelLoad,             \* the model loading effect: "backend" | "loading" |
                           \* "ready" | "failed"; "unmounted" once React has
                           \* unmounted the component after an effect threw
    cameraReq,             \* the pending setupCamera() call (its caller's env), if any
    detectingRef,          \* detectingRef.current
    recentLabels,          \* recentLabels.current
    lastAnnouncementTime,  \* lastAnnouncementTime.current
    now,                   \* Date.now()
    chains,                \* detect() polling chains, in creation order
    sessions,              \* SpeechRecognition sessions, in creation order
    queue,                 \* utterances held by window.speechSynthesis
    spoken,                \* the last speechSynthesis.speak() call
    host,                  \* what the window of the host offers
    analysis,              \* the spatial analysis of the primary detection
    pushLog,               \* history variable: the labels pushed so far, in
                           \* push order (the first MaxPushes of them)
    page                   \* the text nodes of the document and the Lang
                           \* component: its state cells and its
                           \* translateText calls in flight

vars == <<state, modelLoad, cameraReq, detectingRef, recentLabels,
          lastAnnouncementTime, now, chains, sessions, queue, spoken, host,
          analysis, pushLog, page>>

(***************************************************************************)
(* Bounds of the model.                                                    *)
(***************************************************************************)
MaxChains == 2          \* detection effect runs explored
MaxSessions == 2        \* voice-command effect runs explored
StartTime == 5000       \* Date.now() at mount (any value >= the interval)
ClockStep == 1500       \* granularity of the clock
MaxSteps == 2           \* clock steps explored
MaxTicks == 3           \* inference results explored (the history grows to this length)
MaxPure == 5            \* longest history of the pure-function specification
MaxVoices == 3          \* longest voice list of the voice-resolution specification
MaxFrame == 6           \* largest frame width and height of the spatial specification
MaxPushes == 10         \* pushes recorded by the history variable
MaxNodes == 2           \* text nodes of the document
MaxCalls == 2           \* translateText calls in flight at a time

(***************************************************************************)
(* Program constants.                                                      *)
(***************************************************************************)
MIN_ANNOUNCEMENT_INTERVAL == 3000
HistoryCapacity == 7
ProbabilityThresholdPct == 40

ClassNames == {"dog"}
Probabilities == {40, 90}
Labels == ClassNames \cup {"nothing"}

\* What model.classify resolves with: only predictions[0] is ever read.
Predictions ==
    {<<>>} \cup {<<[className |-> c, probability |-> p]>> :
                    c \in ClassNames, p \in Probabilities}

\* A recognised final utterance, after trim() and toLowerCase(): which of
\* the phrases "what do you see", "stop speaking", "start camera" and
\* "surroundings" it includes.  One utterance per command, one with none of
\* the phrases, two with several of them and one with "surroundings" only.
Utterance(q, s, c) ==
    [query |-> q, stop |-> s, start |-> c, surroundings |-> FALSE]
Surroundings ==
    [query |-> FALSE, stop |-> FALSE, start |-> FALSE, surroundings |-> TRUE]
Transcripts ==
    {Utterance(FALSE, FALSE, FALSE), Utterance(TRUE, FALSE, FALSE),
     Utterance(FALSE, TRUE, FALSE), Utterance(FALSE, FALSE, TRUE),
     Utterance(TRUE, TRUE, FALSE), Utterance(FALSE, TRUE, TRUE),
     Surroundings}

\* Voices of the synthesis engine; name.includes(p) and lang.startsWith("en")
\* are decided on these four.
VoiceUS == [name |-> "Google US English", lang |-> "en-US"]
VoiceUK == [name |-> "Google UK English Female", lang |-> "en-GB"]
VoiceEN == [name |-> "Microsoft David", lang |-> "en-US"]
VoiceHI == [name |-> "Google Hindi", lang |-> "hi-IN"]
NoVoice == [name |-> "", lang |-> ""]
VoiceLists == {<<>>, <<VoiceHI, VoiceEN>>}

Last(s) == s[Len(s)]

(***************************************************************************)
(* The values a callback's closure holds: those of the render that created  *)
(* it.  speak() reads lastSpoken and voice, detect() and onresult read      *)
(* stableLabel.                                                            *)
(***************************************************************************)
Env(s) == [stableLabel |-> s.stableLabel, lastSpoken |-> s.lastSpoken,
           voice |-> s.voice]

\* videoRef.current: the <video> element is rendered unconditionally, so the
\* ref is set from the first commit on.
videoRefCurrent == TRUE

\* The host: whether window has speechSynthesis, whether it has
\* SpeechRecognition or webkitSpeechRecognition, and the list
\* speechSynthesis.getVoices() returns (empty until the engine has filled it).
FullHost == [speechSynthesis |-> TRUE, speechRecognition |-> TRUE,
             voices |-> <<>>]
Hosts == [speechSynthesis : BOOLEAN, speechRecognition : BOOLEAN,
          voices : {<<>>}]

\* No detection has been analysed.
NoAnalysis == [zone |-> "", distance |-> <<0, 1>>]

\* "speechSynthesis" in window
speechSynthesisInWindow == host.speechSynthesis

\* "webkitSpeechRecognition" in window || "SpeechRecognition" in window
speechRecognitionInWindow == host.speechRecognition

(***************************************************************************)
(* getStableLabel: counts per label, keys in order of first occurrence,     *)
(* then reduce((a, b) => counts[a] > counts[b] ? a : b) without an initial  *)
(* value.                                                                   *)
(***************************************************************************)
Count(arr, v) == Cardinality({i \in DOMAIN arr : arr[i] = v})

RECURSIVE ObjectKeys(_)
ObjectKeys(arr) ==
    IF arr = <<>> THEN <<>>
    ELSE LET front == SubSeq(arr, 1, Len(arr) - 1)
             keys == ObjectKeys(front)
         IN  IF \E i \in DOMAIN keys : keys[i] = Last(arr)
             THEN keys ELSE Append(keys, Last(arr))

\* A reduce that keeps the key with the smaller count.
ReduceKeepsLess(arr, a, b) == IF Count(arr, a) < Count(arr, b) THEN a ELSE b

\* A reduce that keeps its accumulator on equal counts.
ReduceTieKeepsFirst(arr, a, b) == IF Count(arr, a) >= Count(arr, b) THEN a ELSE b

\* A reduce that keeps its accumulator: the first key wins.
ReduceKeepsFirst(arr, a, b) == a

\* A reduce callback that always moves on to the later key.
ReduceKeepsLast(arr, a, b) == b

ReduceStep(arr, a, b) == IF Count(arr, a) > Count(arr, b) THEN a ELSE b

RECURSIVE Reduce(_, _, _)
Reduce(arr, acc, keys) ==
    IF keys = <<>> THEN acc
    ELSE Reduce(arr, ReduceStep(arr, acc, Head(keys)), Tail(keys))

getStableLabel(arr) ==
    LET keys == ObjectKeys(arr) IN Reduce(arr, Head(keys), Tail(keys))

\* A push that never evicts.
PushNoShift(arr, label) == Append(arr, label)

\* A push that removes the newest entry when full: pop() for shift().
PushPopsNewest(arr, label) ==
    LET appended == Append(arr, label)
    IN  IF Len(appended) > HistoryCapacity
        THEN SubSeq(appended, 1, HistoryCapacity) ELSE appended

\* recentLabels.current.push(label); if (length > 7) shift()
PushLabel(arr, label) ==
    LET pushed == Append(arr, label)
    IN  IF Len(pushed) > HistoryCapacity THEN Tail(pushed) ELSE pushed

\* A label that starts out empty instead of "nothing".
LabelOfUnset(predictions) ==
    IF Len(predictions) > 0 /\ predictions[1].probability > ProbabilityThresholdPct
    THEN predictions[1].className ELSE ""

\* A threshold test with >= for >.
LabelOfAtThreshold(predictions) ==
    IF Len(predictions) > 0 /\ predictions[1].probability >= ProbabilityThresholdPct
    THEN predictions[1].className ELSE "nothing"

\* The record of the labels pushed, in push order; it stops at MaxPushes.
Log(log, label) == IF Len(log) < MaxPushes THEN Append(log, label) ELSE log

\* label of one classification result
LabelOf(predictions) ==
    IF Len(predictions) > 0 /\ predictions[1].probability > ProbabilityThresholdPct
    THEN predictions[1].className ELSE "nothing"

(***************************************************************************)
(* speak(text).  s is what the call can touch: the lastSpoken state cell,   *)
(* the throttle timer, the engine's utterance queue and the record of       *)
(* synthesis calls; env is the closure of the caller, t is Date.now().      *)
(* spoken records the last call of speechSynthesis.speak: its text, its    *)
(* time and the text of the call before it.                                *)
(***************************************************************************)
Speech == [lastSpoken |-> state.lastSpoken,
           lastAnnouncementTime |-> lastAnnouncementTime,
           queue |-> queue, spoken |-> spoken]

NoSynthesis == [text |-> "", at |-> -1, prev |-> ""]

\* A speak() without the interval check.
NeverThrottled(t, last) == FALSE

Throttled(t, last) == t - last < MIN_ANNOUNCEMENT_INTERVAL

\* A speak() without the duplicate check.
NeverDuplicate(env, text) == FALSE

IsDuplicate(env, text) == text = env.lastSpoken

\* A cancel() that leaves the utterances of the engine where they are.
CancelKeepsQueue(q) == q

\* window.speechSynthesis.cancel()
Cancel(q) == <<>>

\* cancel(), new utterance, setLastSpoken, timer, speechSynthesis.speak(utter)
Utter(env, text, s, t) ==
    [s EXCEPT !.lastSpoken = text,
              !.lastAnnouncementTime = t,
              !.queue = Append(Cancel(s.queue), [text |-> text, voice |-> env.voice]),
              !.spoken = [text |-> text, at |-> t, prev |-> s.spoken.text]]

\* A speak() that keeps a throttled announcement for later instead of
\* dropping it.
speakQueueing(env, text, s, t) ==
    IF ~speechSynthesisInWindow \/ text = "" THEN s
    ELSE IF IsDuplicate(env, text) THEN s
    ELSE IF Throttled(t, s.lastAnnouncementTime)
    THEN [s EXCEPT !.queue = Append(s.queue, [text |-> text, voice |-> env.voice])]
    ELSE Utter(env, text, s, t)

speak(env, text, s, t) ==
    IF ~speechSynthesisInWindow \/ text = "" THEN s
    ELSE IF IsDuplicate(env, text) THEN s
    ELSE IF Throttled(t, s.lastAnnouncementTime) THEN s
    ELSE Utter(env, text, s, t)

\* One speak(text) call: who made it, with which closure, on which speech
\* state (pre), and what it left (post).
Call(caller, env, text, s, t) ==
    [caller |-> caller, env |-> env, text |-> text, at |-> t,
     pre |-> s, post |-> speak(env, text, s, t)]

\* The speech variables after a call c (lastSpoken is committed with state).
ApplyCall(c) ==
    /\ lastAnnouncementTime' = c.post.lastAnnouncementTime
    /\ queue' = c.post.queue
    /\ spoken' = c.post.spoken

speechVars == <<lastAnnouncementTime, queue, spoken>>

(***************************************************************************)
(* loadVoice: the first voice in the fixed preference order.               *)
(***************************************************************************)
NameIncludes(v, pattern) == v.name = pattern
LangStartsWithEn(v) == v.lang \in {"en-US", "en-GB"}

Find(voices, ok) ==
    IF ok = {} THEN NoVoice
    ELSE voices[CHOOSE i \in ok : \A j \in ok : i <= j]

\* A resolution that prefers any English voice to the two named ones.
BestVoiceLangFirst(voices) ==
    LET en == {i \in DOMAIN voices : LangStartsWithEn(voices[i])}
    IN  IF en # {} THEN Find(voices, en) ELSE voices[1]

BestVoice(voices) ==
    LET us == {i \in DOMAIN voices : NameIncludes(voices[i], "Google US English")}
        uk == {i \in DOMAIN voices :
                   NameIncludes(voices[i], "Google UK English Female")}
        en == {i \in DOMAIN voices : LangStartsWithEn(voices[i])}
    IN  IF us # {} THEN Find(voices, us)
        ELSE IF uk # {} THEN Find(voices, uk)
        ELSE IF en # {} THEN Find(voices, en)
        ELSE voices[1]

loadVoice(voices, s) ==
    IF Len(voices) > 0 THEN [s EXCEPT !.voice = BestVoice(voices)] ELSE s

(***************************************************************************)
(* The detection loop.  A chain is one detect() closure that keeps          *)
(* rescheduling itself: pc "raf" while a requestAnimationFrame callback is *)
(* pending, "await" while its model.classify call is in flight, "dead"     *)
(* once the async function has rejected.                                   *)
(***************************************************************************)
InFlight == {i \in DOMAIN chains : chains[i].pc = "await"}

\* A tick that does not read the busy flag.
TickIgnoresBusy(busy) == ~videoRefCurrent

\* A tick whose test of the frame lacks its negation.
TickFrameTestInverted(busy) == videoRefCurrent \/ busy

\* if (!videoRef.current || detectingRef.current) { rAF(detect); return }
TickBlocked(busy) == ~videoRefCurrent \/ busy

\* detect() up to its await: the chain's next position and the busy flag
TickPc(busy) == IF TickBlocked(busy) THEN "raf" ELSE "await"
TickBusy(busy) == IF TickBlocked(busy) THEN busy ELSE TRUE

(***************************************************************************)
(* The commit that follows a callback: the detection effect (dependencies  *)
(* model, isStarted, voice, stableLabel; no cleanup) starts a new chain    *)
(* and calls detect() at once; the voice-command effect (dependencies      *)
(* stableLabel, voice) stops the session of its last run and starts a new  *)
(* one.  chs and busy are the chains and the busy flag the callback left.  *)
(***************************************************************************)
\* A detection effect that also depends on lastSpoken.
DetectionDepsWithLastSpoken(s) ==
    <<s.model, s.isStarted, s.voice, s.stableLabel, s.lastSpoken>>

DetectionDeps(s) == <<s.model, s.isStarted, s.voice, s.stableLabel>>
VoiceDeps(s) == <<s.stableLabel, s.voice>>

\* A detection effect without the !model test.
RunsDetectionNoModel(old, new) ==
    /\ DetectionDeps(old) # DetectionDeps(new)
    /\ new.isStarted

RunsDetection(old, new) ==
    /\ DetectionDeps(old) # DetectionDeps(new)
    /\ new.model
    /\ new.isStarted

\* (the effect returns before it creates a session when the host has no
\* recognition)
RunsVoice(old, new) ==
    /\ speechRecognitionInWindow
    /\ VoiceDeps(old) # VoiceDeps(new)

\* return () => recognition.stop(), for the session of the last run
Cleanup(ss) == [ss EXCEPT ![Len(ss)].status = "stopping"]

Commit(new, chs, busy) ==
    /\ RunsDetection(state, new) => Len(chs) < MaxChains
    /\ RunsVoice(state, new) => Len(sessions) < MaxSessions
    /\ state' = new
    /\ chains' = IF RunsDetection(state, new)
                 THEN Append(chs, [env |-> Env(new), pc |-> TickPc(busy)])
                 ELSE chs
    /\ detectingRef' = IF RunsDetection(state, new) THEN TickBusy(busy) ELSE busy
    /\ sessions' = IF RunsVoice(state, new)
                   THEN Append(Cleanup(sessions),
                               [env |-> Env(new), status |-> "listening"])
                   ELSE sessions

(***************************************************************************)
(* The Lang component (component/Global/Lang.tsx).  A text is the sequence *)
(* of its characters; the document has MaxNodes text nodes, none of them   *)
(* hidden by a style or inside a form control, none added or removed       *)
(* after the mount.                                                        *)
(***************************************************************************)
Languages == {"en", "hi", "ta"}

\* Texts of the nodes at mount: plain, with leading white space, and with
\* two dollar signs.
NodeTexts == {<<"a">>, <<" ", "a">>, <<"a", "$", "$">>}

\* Non-empty translated_content values a response can carry.
TranslatedContents == {<<"b">>, <<" ">>}

\* What a translation request settles with: the fetch or res.json() rejects
\* (ok is FALSE), or the body is parsed and translated_content is a text
\* (<<>> for null, missing or empty).
Responses ==
    {[ok |-> FALSE, translated_content |-> <<>>]}
    \cup {[ok |-> TRUE, translated_content |-> t] :
             t \in TranslatedContents \cup {<<>>}}

\* String.prototype.trim
trim(s) ==
    LET ink == {i \in DOMAIN s : s[i] # " "}
        first == CHOOSE i \in ink : \A j \in ink : i <= j
        last == CHOOSE i \in ink : \A j \in ink : i >= j
    IN  IF ink = {} THEN <<>> ELSE SubSeq(s, first, last)

\* s.indexOf(pattern) + 1
IndexOf(s, pattern) ==
    LET hits == {i \in 1..(Len(s) - Len(pattern) + 1) :
                    SubSeq(s, i, i + Len(pattern) - 1) = pattern}
    IN  IF hits = {} THEN 0 ELSE CHOOSE i \in hits : \A j \in hits : i <= j

\* The replacement text of replace() for a string pattern: "$$" stands for
\* one dollar sign (the other patterns, "$&", "$`", "$'", need characters
\* the texts of the model do not have).
RECURSIVE GetSubstitution(_)
GetSubstitution(replacement) ==
    IF replacement = <<>> THEN <<>>
    ELSE IF Len(replacement) >= 2 /\ replacement[1] = "$" /\ replacement[2] = "$"
    THEN <<"$">> \o GetSubstitution(SubSeq(replacement, 3, Len(replacement)))
    ELSE <<replacement[1]>> \o GetSubstitution(Tail(replacement))

\* s.replace(pattern, replacement) with a string pattern: the first
\* occurrence only
replace(s, pattern, replacement) ==
    LET i == IndexOf(s, pattern)
    IN  IF i = 0 THEN s
        ELSE SubSeq(s, 1, i - 1) \o GetSubstitution(replacement)
                 \o SubSeq(s, i + Len(pattern), Len(s))

\* getVisibleTextNodes: the nodes whose text is not empty after trim()
getVisibleTextNodes(nodes) == {n \in DOMAIN nodes : trim(nodes[n]) # <<>>}

\* The component after its mount effect: originalTexts maps every visible
\* node to its text.  selected is a history field: the language of the last
\* translateText call.
InitialPage(texts) ==
    [nodes |-> texts,
     originalTexts |-> [n \in getVisibleTextNodes(texts) |-> texts[n]],
     currentLang |-> "en", showDropdown |-> FALSE, isTranslating |-> FALSE,
     calls |-> <<>>, selected |-> "en"]

PlainTexts == [n \in 1..MaxNodes |-> <<"a">>]

\* restoreOriginalText
restoreOriginalText(p) ==
    [p EXCEPT !.nodes =
        [n \in DOMAIN p.nodes |->
            IF /\ n \in getVisibleTextNodes(p.nodes)
               /\ n \in DOMAIN p.originalTexts
               /\ p.originalTexts[n] # <<>>
            THEN p.originalTexts[n]
            ELSE p.nodes[n]]]

\* translations[text] = data?.translated_content || text, or text in catch
Translation(text, response) ==
    IF response.ok /\ response.translated_content # <<>>
    THEN response.translated_content
    ELSE text

\* nodes.forEach(...) after Promise.all: every captured node whose trimmed
\* text has a translation gets it in place of the trimmed text
Translate(nodes, captured, translations) ==
    [n \in DOMAIN nodes |->
        LET original == trim(nodes[n])
        IN  IF /\ n \in captured
               /\ original # <<>>
               /\ original \in DOMAIN translations
            THEN replace(nodes[n], original, translations[original])
            ELSE nodes[n]]

RemoveAt(seq, k) == SubSeq(seq, 1, k - 1) \o SubSeq(seq, k + 1, Len(seq))

\* The end of a translateText call for a language other than English
Finish(p, captured, translations, l) ==
    [p EXCEPT !.nodes = Translate(p.nodes, captured, translations),
              !.currentLang = l,
              !.isTranslating = FALSE,
              !.showDropdown = FALSE]

otherVars == <<state, modelLoad, cameraReq, detectingRef, recentLabels,
               lastAnnouncementTime, now, chains, sessions, queue, spoken,
               host, analysis, pushLog>>

\* onClick={() => setShowDropdown((prev) => !prev)}
ToggleDropdown ==
    /\ page' = [page EXCEPT !.showDropdown = ~page.showDropdown]
    /\ UNCHANGED otherVars

\* translateText(l) up to its await, from a button of the open dropdown.
\* With no visible text Promise.all([]) resolves at once.
TranslateText(l) ==
    /\ page.showDropdown
    /\ LET captured == getVisibleTextNodes(page.nodes)
           uniqueTexts == {trim(page.nodes[n]) : n \in captured}
           chosen == [page EXCEPT !.selected = l]
       IN  IF l = "en"
           THEN page' = [restoreOriginalText(chosen) EXCEPT
                            !.currentLang = "en",
                            !.isTranslating = FALSE,
                            !.showDropdown = FALSE]
           ELSE IF uniqueTexts = {}
           THEN page' = Finish(chosen, captured, <<>>, l)
           ELSE /\ Len(page.calls) < MaxCalls
                /\ page' = [chosen EXCEPT
                               !.isTranslating = TRUE,
                               !.calls = Append(page.calls,
                                   [lang |-> l, nodes |-> captured,
                                    pending |-> uniqueTexts,
                                    translations |-> <<>>])]
    /\ UNCHANGED otherVars

\* The request of call k for text settles; when it is the last one the
\* call runs to its end.
FetchSettles(k, text, response) ==
    /\ text \in page.calls[k].pending
    /\ LET c == page.calls[k]
           translations == (text :> Translation(text, response)) @@ c.translations
           pending == c.pending \ {text}
       IN  IF pending = {}
           THEN page' = [Finish(page, c.nodes, translations, c.lang) EXCEPT
                            !.calls = RemoveAt(page.calls, k)]
           ELSE page' = [page EXCEPT !.calls[k].pending = pending,
                                     !.calls[k].translations = translations]
    /\ UNCHANGED otherVars

(***************************************************************************)
(* Initial state: the component has mounted and its four effects have run  *)
(* once on the initial values: loadVoice() has found no voice yet (the     *)
(* engine fills its list asynchronously), the model load has started, the  *)
(* detection effect has returned early and the first recognition session   *)
(* is listening.                                                           *)
(***************************************************************************)
InitialState ==
    [model |-> FALSE, status |-> "Initializing TensorFlow...",
     isStarted |-> FALSE, voice |-> NoVoice, lastSpoken |-> "",
     stableLabel |-> ""]

Init ==
    /\ state = loadVoice(<<>>, InitialState)
    /\ modelLoad = "backend"
    /\ cameraReq = {}
    /\ detectingRef = FALSE
    /\ recentLabels = <<>>
    /\ lastAnnouncementTime = 0
    /\ now = StartTime
    /\ chains = <<>>
    /\ sessions = <<[env |-> Env(InitialState), status |-> "listening"]>>
    /\ queue = <<>>
    /\ spoken = NoSynthesis
    /\ analysis = NoAnalysis
    /\ pushLog = <<>>
    /\ page = InitialPage(PlainTexts)
    /\ host = FullHost

(***************************************************************************)
(* Environment: the clock, the synthesis engine.                           *)
(***************************************************************************)
AdvanceClock ==
    /\ now + ClockStep <= StartTime + MaxSteps * ClockStep
    /\ now' = now + ClockStep
    /\ UNCHANGED <<page, pushLog, analysis, host, state, modelLoad, cameraReq, detectingRef, recentLabels,
                   chains, sessions, speechVars>>

\* The engine finishes the utterance it is speaking.
SpeechEnd ==
    /\ queue # <<>>
    /\ queue' = Tail(queue)
    /\ UNCHANGED <<page, pushLog, analysis, host, state, modelLoad, cameraReq, detectingRef, recentLabels,
                   chains, sessions, now, lastAnnouncementTime, spoken>>

\* The voiceschanged event with the engine's list being voices:
\* window.speechSynthesis.onvoiceschanged = loadVoice
VoicesEvent(voices) ==
    /\ host' = [host EXCEPT !.voices = voices]
    /\ Commit(loadVoice(voices, state), chains, detectingRef)
    /\ UNCHANGED <<page, pushLog, analysis, modelLoad, cameraReq, recentLabels, now,
                   speechVars>>

\* The events explored by Spec: those that change the selection.
VoicesChanged ==
    /\ speechSynthesisInWindow
    /\ \E voices \in VoiceLists :
          /\ loadVoice(voices, state) # state
          /\ VoicesEvent(voices)

(***************************************************************************)
(* The model loading effect.                                               *)
(***************************************************************************)
BackendReady ==
    /\ modelLoad = "backend"
    /\ modelLoad' = "loading"
    /\ Commit([state EXCEPT !.status = "Loading MobileNet model (fast)..."],
              chains, detectingRef)
    /\ UNCHANGED <<page, pushLog, analysis, host, cameraReq, recentLabels, now, speechVars>>

ModelLoaded ==
    /\ modelLoad = "loading"
    /\ modelLoad' = "ready"
    /\ Commit([state EXCEPT
                 !.model = TRUE,
                 !.status = "Model ready. Tap 'Start Camera' to begin detection."],
              chains, detectingRef)
    /\ UNCHANGED <<page, pushLog, analysis, host, cameraReq, recentLabels, now, speechVars>>

ModelLoadFailed ==
    /\ modelLoad \in {"backend", "loading"}
    /\ modelLoad' = "failed"
    /\ Commit([state EXCEPT !.status = "Failed to load model."],
              chains, detectingRef)
    /\ UNCHANGED <<page, pushLog, analysis, host, cameraReq, recentLabels, now, speechVars>>

(***************************************************************************)
(* setupCamera: called by the Start Camera button (the closure of the last *)
(* render) or by the "start camera" command (the closure of the session).  *)
(* cameraReq holds the closure of the call whose getUserMedia/play is      *)
(* pending.  The model follows one setupCamera call at a time, and the     *)
(* user asks for the camera only while it has not started.                 *)
(***************************************************************************)
CameraActivated == "Camera activated. I will announce objects I detect near you."

ClickStartCamera ==
    /\ modelLoad # "unmounted"
    /\ ~state.isStarted
    /\ cameraReq = {}
    /\ cameraReq' = {Env(state)}
    /\ UNCHANGED <<page, pushLog, analysis, host, state, modelLoad, detectingRef, recentLabels, chains,
                   sessions, now, speechVars>>

CameraCall(env) == Call("camera", env, CameraActivated, Speech, now)

\* getUserMedia and play() resolve: setIsStarted, setStatus, speak
CameraStarted ==
    \E env \in cameraReq :
        /\ videoRefCurrent
        /\ cameraReq' = cameraReq \ {env}
        /\ Commit([state EXCEPT
                     !.isStarted = TRUE,
                     !.status = "Camera started. Detecting objects...",
                     !.lastSpoken = CameraCall(env).post.lastSpoken],
                  chains, detectingRef)
        /\ ApplyCall(CameraCall(env))
        /\ UNCHANGED <<page, pushLog, analysis, host, modelLoad, recentLabels, now>>

\* A catch branch that marks the camera as started all the same.
CameraFailedStarts ==
    \E env \in cameraReq :
        /\ cameraReq' = cameraReq \ {env}
        /\ Commit([state EXCEPT
                     !.isStarted = TRUE,
                     !.status = "Camera permission denied or unavailable."],
                  chains, detectingRef)
        /\ UNCHANGED <<page, pushLog, analysis, host, modelLoad, recentLabels, now, speechVars>>

\* getUserMedia or play() rejects
CameraFailed ==
    \E env \in cameraReq :
        /\ cameraReq' = cameraReq \ {env}
        /\ Commit([state EXCEPT
                     !.status = "Camera permission denied or unavailable."],
                  chains, detectingRef)
        /\ UNCHANGED <<page, pushLog, analysis, host, modelLoad, recentLabels, now, speechVars>>

(***************************************************************************)
(* detect()                                                                *)
(***************************************************************************)
\* A pending animation frame callback of chain i runs.
RafTick(i) ==
    /\ chains[i].pc = "raf"
    /\ chains' = [chains EXCEPT ![i].pc = TickPc(detectingRef)]
    /\ detectingRef' = TickBusy(detectingRef)
    /\ UNCHANGED <<page, pushLog, analysis, host, state, modelLoad, cameraReq, recentLabels, sessions, now,
                   speechVars>>

Announcement(stable) == "Near you is " \o stable \o "."

\* The stable label chain i computes from a classification result.
StableAfter(predictions) ==
    getStableLabel(PushLabel(recentLabels, LabelOf(predictions)))

\* if (stable !== stableLabel), with the closure's stableLabel
LabelChanged(env, stable) == stable # env.stableLabel

\* A tick that announces every changed label, "nothing" too.
AnnouncesNothingToo(env, stable) == LabelChanged(env, stable)

\* ... and if (stable !== "nothing"): the tick announces
Announces(env, stable) == LabelChanged(env, stable) /\ stable # "nothing"

DetectCall(i, predictions) ==
    Call("detect", chains[i].env, Announcement(StableAfter(predictions)),
         Speech, now)

\* model.classify resolves: the rest of detect()
Resolve(i, predictions) ==
    /\ chains[i].pc = "await"
    /\ recentLabels' = PushLabel(recentLabels, LabelOf(predictions))
    /\ LET env == chains[i].env
           stable == StableAfter(predictions)
           c == DetectCall(i, predictions)
           rescheduled == [chains EXCEPT ![i].pc = "raf"]
       IN  IF Announces(env, stable)
           THEN /\ Commit([state EXCEPT !.stableLabel = stable,
                                        !.status = Announcement(stable),
                                        !.lastSpoken = c.post.lastSpoken],
                          rescheduled, FALSE)
                /\ ApplyCall(c)
           ELSE IF LabelChanged(env, stable)
           THEN /\ Commit([state EXCEPT !.stableLabel = stable,
                                        !.status = "Nothing detected"],
                          rescheduled, FALSE)
                /\ UNCHANGED speechVars
           ELSE /\ Commit(state, rescheduled, FALSE)
                /\ UNCHANGED speechVars
    /\ pushLog' = Log(pushLog, LabelOf(predictions))
    /\ UNCHANGED <<page, analysis, host, modelLoad, cameraReq, now>>

\* The results explored by Spec: the history grows to MaxTicks labels.
InferenceResolve(i, predictions) ==
    /\ Len(recentLabels) < MaxTicks
    /\ Resolve(i, predictions)

\* What a rejected model.classify leaves of the busy flag and of the chain:
\* the await throws inside detect(), which has no try/catch.
RejectBusy(busy) == busy
RejectPc == "dead"

InferenceReject(i) ==
    /\ chains[i].pc = "await"
    /\ detectingRef' = RejectBusy(detectingRef)
    /\ chains' = [chains EXCEPT ![i].pc = RejectPc]
    /\ UNCHANGED <<page, pushLog, analysis, host, state, modelLoad, cameraReq, recentLabels, sessions, now,
                   speechVars>>

(***************************************************************************)
(* Voice commands.  A session is one SpeechRecognition object with the     *)
(* onresult closure of the render that created it.                         *)
(***************************************************************************)
NothingSeen == "I don't see anything near you right now."
StoppedSpeaking == "Okay, I stopped speaking."

QueryText(env) ==
    IF env.stableLabel # "" /\ env.stableLabel # "nothing"
    THEN Announcement(env.stableLabel) ELSE NothingSeen

\* speechSynthesis.cancel(); lastAnnouncementTime.current = Date.now()
StopSpeech(s, t) ==
    [s EXCEPT !.queue = Cancel(s.queue), !.lastAnnouncementTime = t]

QueryCall(i) == Call("query", sessions[i].env, QueryText(sessions[i].env),
                     Speech, now)

StopCall(i) == Call("stop", sessions[i].env, StoppedSpeaking,
                    StopSpeech(Speech, now), now)

\* A handler that also takes "surroundings" for the query.
CommandWithSurroundings(transcript) ==
    IF transcript.query \/ transcript.surroundings THEN "query"
    ELSE IF transcript.stop THEN "stop"
    ELSE IF transcript.start THEN "start"
    ELSE "none"

\* A handler whose chain ends in an else that stops the speech.
CommandUnmatchedStops(transcript) ==
    IF transcript.query THEN "query"
    ELSE IF transcript.stop THEN "stop"
    ELSE IF transcript.start THEN "start"
    ELSE "stop"

\* A handler that tests "stop speaking" before "what do you see".
CommandStopFirst(transcript) ==
    IF transcript.stop THEN "stop"
    ELSE IF transcript.query THEN "query"
    ELSE IF transcript.start THEN "start"
    ELSE "none"

\* The branch of the if / else-if chain the utterance takes.
Command(transcript) ==
    IF transcript.query THEN "query"
    ELSE IF transcript.stop THEN "stop"
    ELSE IF transcript.start THEN "start"
    ELSE "none"

OnResult(i, transcript) ==
    /\ sessions[i].status = "listening"
    /\ IF Command(transcript) = "query"
       THEN /\ Commit([state EXCEPT !.lastSpoken = QueryCall(i).post.lastSpoken],
                      chains, detectingRef)
            /\ ApplyCall(QueryCall(i))
            /\ UNCHANGED cameraReq
       ELSE IF Command(transcript) = "stop"
       THEN /\ Commit([state EXCEPT !.lastSpoken = StopCall(i).post.lastSpoken],
                      chains, detectingRef)
            /\ ApplyCall(StopCall(i))
            /\ UNCHANGED cameraReq
       ELSE IF Command(transcript) = "start"
       THEN /\ ~state.isStarted
            /\ cameraReq = {}
            /\ cameraReq' = {sessions[i].env}
            /\ UNCHANGED <<state, chains, detectingRef, sessions, speechVars>>
       ELSE UNCHANGED <<state, chains, detectingRef, sessions, cameraReq,
                        speechVars>>
    /\ UNCHANGED <<page, pushLog, analysis, host, modelLoad, recentLabels, now>>

\* An onend handler that does not start the session again.
RecognitionEndNoRestart(i) ==
    /\ sessions[i].status # "ended"
    /\ sessions' = [sessions EXCEPT ![i].status = "ended"]
    /\ UNCHANGED <<page, pushLog, analysis, host, state, modelLoad, cameraReq, detectingRef, recentLabels,
                   chains, now, speechVars>>

\* The session ends (on its own, after an error, or after stop()):
\* recognition.onend = () => recognition.start()
RecognitionEnd(i) ==
    /\ sessions' = [sessions EXCEPT ![i].status = "listening"]
    /\ UNCHANGED <<page, pushLog, analysis, host, state, modelLoad, cameraReq, detectingRef, recentLabels,
                   chains, now, speechVars>>

Next ==
    \/ AdvanceClock
    \/ SpeechEnd
    \/ VoicesChanged
    \/ BackendReady
    \/ ModelLoaded
    \/ ModelLoadFailed
    \/ ClickStartCamera
    \/ CameraStarted
    \/ CameraFailed
    \/ \E i \in DOMAIN chains : RafTick(i)
    \/ \E i \in DOMAIN chains, predictions \in Predictions :
          InferenceResolve(i, predictions)
    \/ \E i \in DOMAIN chains : InferenceReject(i)
    \/ \E i \in DOMAIN sessions, transcript \in Transcripts :
          OnResult(i, transcript)
    \/ \E i \in DOMAIN sessions : RecognitionEnd(i)

Spec == Init /\ [][Next]_vars

(***************************************************************************)
(* The detection loop: backpressure and inference failures.                *)
(***************************************************************************)

\* C1: over all polling chains, whichever run of the detection effect
\* started them, at most one model.classify call is in flight; a tick that
\* finds the busy flag set issues no call and changes nothing but its own
\* rescheduling.
C1_OneInFlight ==
    [][/\ Cardinality(InFlight') <= 1
       /\ InFlight' # {} => detectingRef'
       /\ \A i \in DOMAIN chains :
             (detectingRef /\ RafTick(i)) => UNCHANGED vars]_vars

\* C1 witness: one chain awaits its inference while another chain, started
\* by a later run of the effect, has a tick pending that will find the flag
\* set.
C1_Witness ==
    /\ detectingRef
    /\ \E i, j \in DOMAIN chains :
          /\ i # j
          /\ chains[i].pc = "await"
          /\ chains[j].pc = "raf"

\* Some chain can still issue an inference call: one is in flight, or a
\* pending tick will find the frame present and the flag clear.
CanInfer ==
    \E j \in DOMAIN chains :
        \/ chains[j].pc = "await"
        \/ chains[j].pc = "raf" /\ ~TickBlocked(detectingRef)

\* C2: when an inference call fails, the loop reschedules itself and a later
\* inference call can be issued.
C2_FailureNotFatal ==
    [][\A i \in DOMAIN chains :
          InferenceReject(i) => (chains'[i].pc = "raf" /\ CanInfer')]_vars

\* C3: when an inference call fails, the busy flag is released, and the
\* label history, the stable label, the last spoken text and the last
\* spoken time are left as they were.
C3_FailureReleasesFlag ==
    [][\A i \in DOMAIN chains :
          InferenceReject(i) =>
              /\ detectingRef' = FALSE
              /\ UNCHANGED <<recentLabels, state, lastAnnouncementTime>>]_vars


(***************************************************************************)
(* speak(): duplicates, throttle, stop.                                    *)
(***************************************************************************)

\* The speak() calls the callbacks pending in the current state can make
\* next: the pending setupCamera, the inference in flight of each chain for
\* each result that announces, and each listening session for the query and
\* the stop command.
PossibleCalls ==
    {CameraCall(env) : env \in cameraReq}
    \cup {DetectCall(i, p) :
            <<i, p>> \in {ip \in InFlight \X Predictions :
                            Announces(chains[ip[1]].env, StableAfter(ip[2]))}}
    \cup {QueryCall(i) : i \in {k \in DOMAIN sessions :
                                   sessions[k].status = "listening"}}
    \cup {StopCall(i) : i \in {k \in DOMAIN sessions :
                                  sessions[k].status = "listening"}}

\* The call reached speechSynthesis.speak().
Synthesized(c) == c.post.spoken # c.pre.spoken

\* The interval has elapsed for the call.
IntervalElapsed(c) == c.at - c.pre.lastAnnouncementTime >= MIN_ANNOUNCEMENT_INTERVAL

\* A step of the "stop speaking" branch of session i's onresult.
StopStep(i) ==
    \E transcript \in Transcripts :
        Command(transcript) = "stop" /\ OnResult(i, transcript)

\* C4: a speak(text) whose text is empty or the text of the most recent
\* synthesis call is a no-op, whichever callback makes it: no step makes a
\* synthesis call with the text of the synthesis call before it.
C4_DuplicateIsNoOp ==
    [][spoken' # spoken => spoken'.text # spoken.text]_vars

\* C5: two successive synthesis calls are at least
\* MIN_ANNOUNCEMENT_INTERVAL apart, and a step taken while
\* now - lastAnnouncementTime < MIN_ANNOUNCEMENT_INTERVAL makes none.
C5_SynthesisSpacing ==
    [][/\ now - lastAnnouncementTime < MIN_ANNOUNCEMENT_INTERVAL
            => spoken' = spoken
       /\ spoken' # spoken =>
            \/ spoken = NoSynthesis
            \/ spoken'.at - spoken.at >= MIN_ANNOUNCEMENT_INTERVAL]_vars

\* C5 witness: two synthesis calls have been made and a callback is about to
\* call speak() within the interval of the second.
C5_Witness ==
    /\ spoken.prev # ""
    /\ \E c \in PossibleCalls : ~IntervalElapsed(c)

\* C6: a step taken within the interval drops what it announces: lastSpoken,
\* the timer and the synthesis record stay, the queue of the engine gains
\* nothing (only the stop command touches the timer and the queue, by its
\* own cancel and reset); and the engine is given a text only by a speak()
\* call of the step itself.
C6_DropNotQueued ==
    [][/\ now - lastAnnouncementTime < MIN_ANNOUNCEMENT_INTERVAL =>
            /\ state'.lastSpoken = state.lastSpoken
            /\ spoken' = spoken
            /\ \/ /\ lastAnnouncementTime' = lastAnnouncementTime
                  /\ queue' = queue \/ (queue # <<>> /\ queue' = Tail(queue))
               \/ /\ \E i \in DOMAIN sessions : StopStep(i)
                  /\ lastAnnouncementTime' = now
                  /\ queue' = <<>>
       /\ (spoken' # spoken \/ Len(queue') > Len(queue)) =>
            \E c \in PossibleCalls :
                /\ c.text # "" /\ ~IsDuplicate(c.env, c.text) /\ IntervalElapsed(c)
                /\ spoken' = c.post.spoken
                /\ queue' = c.post.queue]_vars

\* C6 witness: the engine is speaking and a callback is about to announce a
\* new text within the interval.
C6_Witness ==
    /\ queue # <<>>
    /\ \E c \in PossibleCalls :
          /\ c.caller # "stop"
          /\ ~IsDuplicate(c.env, c.text)
          /\ ~IntervalElapsed(c)

\* C7 as stated: a speak() with the text of the last synthesis call, made
\* once the interval has elapsed, is synthesized.
C7_RespokenAfterInterval ==
    \A c \in PossibleCalls :
        (spoken.text # "" /\ c.text = spoken.text /\ IntervalElapsed(c))
            => Synthesized(c)

\* C7 amended: such a call is synthesized exactly when the closure of the
\* caller does not hold that text as lastSpoken, i.e. when the callback was
\* created by a render older than the one that committed the text.
C7_RespokenIffStaleClosure ==
    \A c \in PossibleCalls :
        (spoken.text # "" /\ c.text = spoken.text /\ IntervalElapsed(c))
            => (Synthesized(c) <=> c.env.lastSpoken # c.text)

\* C7 witness: a text has been synthesized twice in a row, the second time
\* an interval after the first, by a callback whose closure is older than
\* the first synthesis.
C7_Witness ==
    /\ spoken.text # ""
    /\ spoken.prev = spoken.text
    /\ spoken.at >= StartTime + MIN_ANNOUNCEMENT_INTERVAL

\* C8: the stop command cancels the speech in flight, and a speak() with a
\* text other than the last spoken one made right after it is synthesized.
C8_AnnounceAfterStop ==
    [][\A i \in DOMAIN sessions :
          StopStep(i) =>
              /\ queue' = <<>>
              /\ \A c \in PossibleCalls' :
                    (c.text # c.env.lastSpoken /\ c.text # spoken'.text)
                        => Synthesized(c)]_vars

\* C9: every stop command has the confirmation phrase synthesized.
C9_StopConfirmed ==
    [][\A i \in DOMAIN sessions :
          StopStep(i) =>
              /\ spoken'.text = StoppedSpeaking
              /\ spoken'.at = now]_vars


(***************************************************************************)
(* getStableLabel on its own: the histories of up to MaxPure labels over    *)
(* two class names and "nothing", and the step of detect() that computes   *)
(* the stable label of the history and stores it with setStableLabel.      *)
(***************************************************************************)
PureLabels == {"dog", "cat", "nothing"}

Histories == UNION {[1..n -> PureLabels] : n \in 1..MaxPure}

InitStable ==
    /\ state = InitialState
    /\ modelLoad = "ready"
    /\ cameraReq = {}
    /\ detectingRef = FALSE
    /\ recentLabels \in Histories
    /\ lastAnnouncementTime = 0
    /\ now = StartTime
    /\ chains = <<>>
    /\ sessions = <<>>
    /\ queue = <<>>
    /\ spoken = NoSynthesis
    /\ analysis = NoAnalysis
    /\ pushLog = recentLabels
    /\ page = InitialPage(PlainTexts)
    /\ host = FullHost

\* const stable = getStableLabel(recentLabels.current); setStableLabel(stable)
ApplyStableLabel ==
    /\ state.stableLabel = ""
    /\ state' = [state EXCEPT !.stableLabel = getStableLabel(recentLabels)]
    /\ UNCHANGED <<page, pushLog, analysis, host, modelLoad, cameraReq, detectingRef, recentLabels, chains,
                   sessions, now, speechVars>>

NextStable == ApplyStableLabel

SpecStable == InitStable /\ [][NextStable]_vars

\* The ratios of the majority threshold, in percent.
RatioPct == {40, 50}

\* l occurs more often in arr than every other label.
Plurality(arr, l) ==
    \A m \in PureLabels \ {l} : Count(arr, l) > Count(arr, m)

MaxCount(arr) ==
    CHOOSE n \in 0..Len(arr) :
        /\ \E l \in PureLabels : Count(arr, l) = n
        /\ \A l \in PureLabels : Count(arr, l) <= n

\* The index of the first occurrence of l in arr.
FirstIndex(arr, l) ==
    CHOOSE i \in DOMAIN arr : arr[i] = l /\ \A j \in 1..(i - 1) : arr[j] # l

\* The labels of arr with the greatest count.
Leaders(arr) == {l \in PureLabels : Count(arr, l) = MaxCount(arr)}

C12_TieFirstEncountered ==
    state.stableLabel # "" =>
        \A l \in Leaders(recentLabels) :
            FirstIndex(recentLabels, state.stableLabel)
                <= FirstIndex(recentLabels, l)

\* C12 amended: when several labels share the greatest count,
\* getStableLabel returns the one of them whose first occurrence in the
\* history is the latest.
C12_TieLastEncountered ==
    state.stableLabel # "" =>
        /\ state.stableLabel \in Leaders(recentLabels)
        /\ \A l \in Leaders(recentLabels) :
              FirstIndex(recentLabels, l)
                  <= FirstIndex(recentLabels, state.stableLabel)

\* C12 witness: three labels share the greatest count and the one returned
\* is the last of them to appear.
C12_Witness ==
    /\ state.stableLabel # ""
    /\ Cardinality(Leaders(recentLabels)) = 3
    /\ recentLabels[1] # state.stableLabel


(***************************************************************************)
(* The label history on its own: from the state in which the model has      *)
(* loaded and the camera has just started (the first detect() call awaits   *)
(* its inference), the ticks of all polling chains, without a bound on      *)
(* their number: the history fills up and evicts.                           *)
(***************************************************************************)
StartedState ==
    [model |-> TRUE, status |-> "Camera started. Detecting objects...",
     isStarted |-> TRUE, voice |-> NoVoice, lastSpoken |-> CameraActivated,
     stableLabel |-> ""]

InitHistory ==
    /\ state = StartedState
    /\ modelLoad = "ready"
    /\ cameraReq = {}
    /\ detectingRef = TRUE
    /\ recentLabels = <<>>
    /\ lastAnnouncementTime = StartTime
    /\ now = StartTime
    /\ chains = <<[env |-> Env(StartedState), pc |-> "await"]>>
    /\ sessions = <<[env |-> Env(InitialState), status |-> "listening"]>>
    /\ queue = <<[text |-> CameraActivated, voice |-> NoVoice]>>
    /\ spoken = [text |-> CameraActivated, at |-> StartTime, prev |-> ""]
    /\ analysis = NoAnalysis
    /\ pushLog = <<>>
    /\ page = InitialPage(PlainTexts)
    /\ host = FullHost

NextHistory ==
    \/ \E i \in DOMAIN chains : RafTick(i)
    \/ \E i \in DOMAIN chains, predictions \in Predictions :
          Resolve(i, predictions)

SpecHistory == InitHistory /\ [][NextHistory]_vars

\* C13: between callbacks the label history never holds more than
\* HistoryCapacity entries, whichever chain pushes; a push on a full history
\* evicts the oldest entry.
C13_HistoryBounded ==
    [][/\ Len(recentLabels') <= HistoryCapacity
       /\ (Len(recentLabels) = HistoryCapacity /\ recentLabels' # recentLabels)
             => Tail(recentLabels) = SubSeq(recentLabels', 1, HistoryCapacity - 1)]_vars

\* C13 witness: two chains push into a full history whose oldest entries
\* have been evicted (the first label ever pushed was the stable label the
\* second chain was started for, and it is gone).
C13_Witness ==
    /\ Len(recentLabels) = HistoryCapacity
    /\ Len(chains) = 2
    /\ state.stableLabel = "dog"
    /\ recentLabels[1] = "nothing"


(***************************************************************************)
(* The recognition sessions under the browser's scheduling: the end event  *)
(* of a session that has ended or has been stopped is delivered.           *)
(***************************************************************************)
SpecLive ==
    /\ Spec
    /\ \A i \in 1..MaxSessions :
          WF_vars(i \in DOMAIN sessions /\ RecognitionEnd(i))

\* C14: every session that is not listening (it ended, raised an error or
\* was stopped) is listening again later: no session stays stopped.
C14_ListensAgain ==
    \A i \in 1..MaxSessions :
        (i \in DOMAIN sessions /\ sessions[i].status # "listening")
            ~> (i \in DOMAIN sessions /\ sessions[i].status = "listening")

\* C14 witness: a session has been stopped by the cleanup of its effect and
\* its end event is pending.
C14_Witness ==
    \E i \in DOMAIN sessions : sessions[i].status = "stopping"


(***************************************************************************)
(* Voice commands.                                                         *)
(***************************************************************************)

\* C15 as stated: every utterance that contains "what do you see" or
\* "surroundings" makes the handler call speak() with a text composed from
\* the current stable label.
C15_QueryOrSurroundingsAnnounces ==
    \A i \in DOMAIN sessions, transcript \in Transcripts :
        (sessions[i].status = "listening"
            /\ (transcript.query \/ transcript.surroundings))
        => /\ Command(transcript) = "query"
           /\ QueryCall(i).text = QueryText(Env(state))

\* C15 amended: every utterance that contains "what do you see" makes the
\* handler call speak() with the text composed from the stable label its
\* session's closure holds (when speak() does not drop the call, that text
\* is synthesized at once); an utterance that contains "surroundings" and
\* none of the three command phrases changes nothing.
C15_QueryAnnouncesClosureLabel ==
    [][\A i \in DOMAIN sessions :
          LET env == sessions[i].env
              text == QueryText(env)
          IN  /\ \/ /\ spoken' # spoken => spoken'.text = text
                    /\ (text # env.lastSpoken
                          /\ now - lastAnnouncementTime
                                 >= MIN_ANNOUNCEMENT_INTERVAL)
                       => spoken' = [text |-> text, at |-> now,
                                     prev |-> spoken.text]
                 \/ \A transcript \in Transcripts :
                       transcript.query => ~OnResult(i, transcript)
              /\ \A transcript \in Transcripts :
                    (transcript.surroundings /\ ~transcript.query
                        /\ ~transcript.stop /\ ~transcript.start)
                    => ~OnResult(i, transcript)]_vars

\* C15 witness: a query has just been answered with the nothing-seen phrase.
C15_Witness ==
    /\ spoken.text = NothingSeen
    /\ spoken.at = now
    /\ \E i \in DOMAIN sessions : sessions[i].status = "listening"

\* C16: a query handled by any live session is answered with the stable
\* label the last detection tick wrote.
C16_QueryAnswersCurrentLabel ==
    [][\A i \in DOMAIN sessions, transcript \in Transcripts :
          (Command(transcript) = "query" /\ OnResult(i, transcript)
              /\ spoken' # spoken)
          => spoken'.text = QueryText(Env(state))]_vars


\* C17: no onresult handler, whatever the utterance, writes the stable
\* label, the label history or the busy flag; the polling chains and the
\* recognition sessions are as they were after it, also after "stop
\* speaking".
C17_HandlerLeavesDetection ==
    [][\/ /\ state'.stableLabel = state.stableLabel
          /\ UNCHANGED <<recentLabels, detectingRef, chains, sessions>>
       \/ \A i \in DOMAIN sessions, transcript \in Transcripts :
             ~OnResult(i, transcript)]_vars

\* C17 witness: a stop command has reset the timer (no synthesis call was
\* made at that time) while an inference is in flight, labels have been
\* pushed and a query has been answered before.
C17_Witness ==
    /\ lastAnnouncementTime = now
    /\ spoken.at < now
    /\ spoken.text \in {NothingSeen, Announcement("dog")}
    /\ InFlight # {}
    /\ recentLabels # <<>>

(***************************************************************************)
(* Failures of the camera and of the model load.                           *)
(***************************************************************************)
CameraDenied == "Camera permission denied or unavailable."

C19_NoInferenceWithoutModel ==
    [][/\ chains' # <<>> => (state'.model /\ state'.isStarted)
       /\ modelLoad' = "failed" => (~state'.model /\ chains' = <<>>)
       /\ ModelLoadFailed => state'.status = "Failed to load model."]_vars

\* C19 witness: the model load has failed and the camera has started.
C19_Witness ==
    /\ modelLoad = "failed"
    /\ state.isStarted


(***************************************************************************)
(* The component in every host.  At mount the effects run in order:        *)
(* loadVoice() reads window.speechSynthesis.getVoices() without testing for *)
(* speechSynthesis, so in a host without it the first effect throws a       *)
(* TypeError; the later effects of the component do not run and React,      *)
(* having no error boundary, unmounts the component.  In a host without     *)
(* recognition the voice-command effect returns before creating a session.  *)
(***************************************************************************)
loadVoiceThrows(h) == ~h.speechSynthesis

\* The useState initial values: no effect has run.
ConstructedState ==
    [InitialState EXCEPT !.status = "Waiting for camera permission..."]

InitHost ==
    /\ host \in Hosts
    /\ state = IF loadVoiceThrows(host) THEN ConstructedState
               ELSE loadVoice(<<>>, InitialState)
    /\ modelLoad = IF loadVoiceThrows(host) THEN "unmounted" ELSE "backend"
    /\ cameraReq = {}
    /\ detectingRef = FALSE
    /\ recentLabels = <<>>
    /\ lastAnnouncementTime = 0
    /\ now = StartTime
    /\ chains = <<>>
    /\ sessions = IF loadVoiceThrows(host) \/ ~host.speechRecognition
                  THEN <<>>
                  ELSE <<[env |-> Env(InitialState), status |-> "listening"]>>
    /\ queue = <<>>
    /\ spoken = NoSynthesis
    /\ analysis = NoAnalysis
    /\ pushLog = <<>>
    /\ page = InitialPage(PlainTexts)

SpecHost == InitHost /\ [][Next]_vars

\* C20: in a host without speech synthesis the voice resolution at mount,
\* speak() and the stop command raise no error (the component stays
\* mounted) and make no synthesis call; in a host without recognition no
\* session is created and nothing is raised either.
C20_UnsupportedIsSilent ==
    /\ ~host.speechSynthesis =>
          (modelLoad # "unmounted" /\ spoken = NoSynthesis)
    /\ ~host.speechRecognition =>
          (sessions = <<>> /\ (host.speechSynthesis => modelLoad # "unmounted"))


(***************************************************************************)
(* Teardown of a recognition session.                                      *)
(***************************************************************************)
Listening == {i \in DOMAIN sessions : sessions[i].status = "listening"}

\* C21: a session stopped by the cleanup of the voice-command effect stays
\* stopped (its end handler does not start it again), so at most one
\* recognition session is listening at any time.
C21_TornDownStaysStopped ==
    [][/\ \A i \in DOMAIN sessions :
             sessions[i].status = "stopping" => sessions'[i].status # "listening"
       /\ Cardinality(Listening') <= 1]_vars


(***************************************************************************)
(* Voice resolution on its own: every list of up to MaxVoices voices the   *)
(* engine can hold, any selection an earlier run left, in a host with or   *)
(* without recognition; the voiceschanged event fires on the list as it is *)
(* (the engine may fire it more than once) or on a new list.               *)
(***************************************************************************)
Voices == {VoiceUS, VoiceUK, VoiceEN, VoiceHI}

AllVoiceLists == UNION {[1..n -> Voices] : n \in 0..MaxVoices}

InitVoice ==
    /\ host \in [speechSynthesis : {TRUE}, speechRecognition : BOOLEAN,
                 voices : AllVoiceLists]
    /\ \E v \in Voices \cup {NoVoice} : state = [InitialState EXCEPT !.voice = v]
    /\ modelLoad = "backend"
    /\ cameraReq = {}
    /\ detectingRef = FALSE
    /\ recentLabels = <<>>
    /\ lastAnnouncementTime = 0
    /\ now = StartTime
    /\ chains = <<>>
    /\ sessions = IF host.speechRecognition
                  THEN <<[env |-> Env(state), status |-> "listening"]>>
                  ELSE <<>>
    /\ queue = <<>>
    /\ spoken = NoSynthesis
    /\ analysis = NoAnalysis
    /\ pushLog = <<>>
    /\ page = InitialPage(PlainTexts)

\* The event fires on the list the engine holds.
VoicesFired == VoicesEvent(host.voices)

\* The engine's list changes and the event fires.
VoicesReplaced ==
    \E voices \in AllVoiceLists : voices # host.voices /\ VoicesEvent(voices)

NextVoice == VoicesFired \/ VoicesReplaced

SpecVoice == InitVoice /\ [][NextVoice]_vars

\* The first voice of the list whose name contains pattern, if any.
FirstNamed(voices, pattern, v) ==
    \E i \in DOMAIN voices :
        /\ voices[i] = v
        /\ NameIncludes(v, pattern)
        /\ \A j \in 1..(i - 1) : ~NameIncludes(voices[j], pattern)

SomeNamed(voices, pattern) ==
    \E i \in DOMAIN voices : NameIncludes(voices[i], pattern)

SomeEnglish(voices) == \E i \in DOMAIN voices : LangStartsWithEn(voices[i])

\* v is the voice the preference order selects from a non-empty list.
Preferred(voices, v) ==
    IF SomeNamed(voices, "Google US English")
    THEN FirstNamed(voices, "Google US English", v)
    ELSE IF SomeNamed(voices, "Google UK English Female")
    THEN FirstNamed(voices, "Google UK English Female", v)
    ELSE IF SomeEnglish(voices)
    THEN \E i \in DOMAIN voices :
            /\ voices[i] = v
            /\ LangStartsWithEn(v)
            /\ \A j \in 1..(i - 1) : ~LangStartsWithEn(voices[j])
    ELSE v = voices[1]

\* C22: every voiceschanged event on a non-empty list leaves the voice the
\* preference order selects (name contains "Google US English", else name
\* contains "Google UK English Female", else language starts with "en",
\* else the first voice), whatever was selected before; one more event on
\* the same list would change nothing; an event on an empty list leaves the
\* selection as it was.
C22_VoicePreferenceIdempotent ==
    [][/\ host'.voices # <<>> => Preferred(host'.voices, state'.voice)
       /\ loadVoice(host'.voices, state') = state'
       /\ host'.voices = <<>> => state'.voice = state.voice]_vars

\* C22 witness: a list without the two named voices, whose first voice is
\* not English, has been resolved to its English voice, and the selection
\* before was another voice.
C22_Witness ==
    /\ Len(host.voices) = MaxVoices
    /\ host.voices[1] = VoiceHI
    /\ state.voice = VoiceEN
    /\ sessions # <<>> /\ sessions[1].env.voice = VoiceUS


(***************************************************************************)
(* Utterances that match no command.                                       *)
(***************************************************************************)
Unmatched(transcript) ==
    ~transcript.query /\ ~transcript.stop /\ ~transcript.start

\* C23: the handler of an utterance that contains none of the three command
\* phrases calls neither speak() nor cancel() nor setupCamera() and writes
\* no state cell and no ref: no step that changes anything is the handling
\* of such an utterance.
C23_UnmatchedIgnored ==
    [][\A i \in DOMAIN sessions, transcript \in Transcripts :
          Unmatched(transcript) => ~OnResult(i, transcript)]_vars

\* C23 witness: a session is listening while the engine is speaking, the
\* camera has not started and the interval has elapsed: a cancel, a capture
\* start or an announcement would each show.
C23_Witness ==
    /\ Listening # {}
    /\ queue # <<>>
    /\ ~state.isStarted /\ cameraReq = {}
    /\ now - lastAnnouncementTime >= MIN_ANNOUNCEMENT_INTERVAL


(***************************************************************************)
(* SpatialAnalyzer on its own.  No source file of src/ computes a zone or  *)
(* a distance (detect() reads only the label and the score of the first    *)
(* prediction), so zoneOf and distanceOf are taken from section 4.3 of the *)
(* specification.  Coordinates are whole pixels; xCenter = x + width/2 is   *)
(* kept doubled and a distance is the exact fraction <<num, den>>, den > 0, *)
(* so that no comparison is rounded.                                       *)
(***************************************************************************)
Zones == {"Left", "Center", "Right"}

\* twice xCenter = box.x + box.width / 2
Center2(box) == 2 * box.x + box.width

\* A zoneOf that compares with third where it should compare with 2 * third.
zoneOfOneThreshold(box, frameWidth) ==
    IF 3 * Center2(box) < 2 * frameWidth THEN "Left"
    ELSE IF 3 * Center2(box) > 2 * frameWidth THEN "Right"
    ELSE "Center"

\* third = frameWidth / 3; Left if xCenter < third, Right if
\* xCenter > 2 * third, else Center
zoneOf(box, frameWidth) ==
    IF 3 * Center2(box) < 2 * frameWidth THEN "Left"
    ELSE IF 3 * Center2(box) > 4 * frameWidth THEN "Right"
    ELSE "Center"

\* a <= b for fractions
FracLeq(a, b) == a[1] * b[2] <= b[1] * a[2]

Half == <<1, 2>>

\* A distanceOf without the floor of 0.5.
distanceOfNoFloor(box, frameHeight) ==
    <<10 * frameHeight - 12 * box.height, 2 * frameHeight>>

\* heightRatio = box.height / frameHeight; max(0.5, 5 - heightRatio * 6)
distanceOf(box, frameHeight) ==
    LET raw == <<10 * frameHeight - 12 * box.height, 2 * frameHeight>>
    IN  IF FracLeq(raw, Half) THEN Half ELSE raw

\* The frames and the boxes analysed: every frame of 2..MaxFrame pixels each
\* way with every box that lies within it, and the frame and box of the
\* scenario of section 8.
FrameSizes == 2..MaxFrame

BoxesIn(frameWidth, frameHeight) ==
    {b \in [x : 0..(frameWidth - 1), y : {0}, width : 0..frameWidth,
            height : 0..frameHeight] : b.x + b.width <= frameWidth}

ScenarioBox == [x |-> 400, y |-> 100, width |-> 100, height |-> 300]

Inputs ==
    {[box |-> ScenarioBox, frameWidth |-> 640, frameHeight |-> 480]}
    \cup UNION {{[box |-> b, frameWidth |-> w, frameHeight |-> h] :
                    b \in BoxesIn(w, h)} : w \in FrameSizes, h \in FrameSizes}

InitSpatial ==
    /\ state = StartedState
    /\ modelLoad = "ready"
    /\ cameraReq = {}
    /\ detectingRef = FALSE
    /\ recentLabels = <<>>
    /\ lastAnnouncementTime = 0
    /\ now = StartTime
    /\ chains = <<>>
    /\ sessions = <<>>
    /\ queue = <<>>
    /\ spoken = NoSynthesis
    /\ host = FullHost
    /\ \E in \in Inputs :
          analysis = [box |-> in.box, frameWidth |-> in.frameWidth,
                      frameHeight |-> in.frameHeight, zone |-> "",
                      distance |-> <<0, 1>>]
    /\ pushLog = <<>>
    /\ page = InitialPage(PlainTexts)

\* The zone and the distance of the detection are computed.
Analyze ==
    /\ analysis.zone = ""
    /\ analysis' = [analysis EXCEPT
                      !.zone = zoneOf(analysis.box, analysis.frameWidth),
                      !.distance = distanceOf(analysis.box, analysis.frameHeight)]
    /\ UNCHANGED <<page, pushLog, host, state, modelLoad, cameraReq, detectingRef,
                   recentLabels, chains, sessions, now, speechVars>>

NextSpatial == Analyze

SpecSpatial == InitSpatial /\ [][NextSpatial]_vars

\* One box for every centre of [0, frameWidth), in steps of half a pixel, of
\* the frame of the analysed detection.
Peers ==
    {[x |-> x, y |-> 0, width |-> w, height |-> 0] :
        x \in 0..(analysis.frameWidth - 1), w \in {0, 1}}

ZoneRank(z) == IF z = "Left" THEN 1 ELSE IF z = "Center" THEN 2 ELSE 3

\* C24: every box gets exactly one of the three zones: Left when
\* xCenter < frameWidth/3, Right when xCenter > 2*frameWidth/3, Center
\* otherwise; over the centres of [0, frameWidth) the zones are three
\* contiguous ranges in the order Left, Center, Right (a box further right
\* is never in a zone further left) and each of the three occurs.
C24_ZonesPartitionFrame ==
    analysis.zone # "" =>
        LET fw == analysis.frameWidth
            c2 == Center2(analysis.box)
        IN  /\ analysis.zone \in Zones
            /\ analysis.zone = "Left" <=> 3 * c2 < 2 * fw
            /\ analysis.zone = "Right" <=> 3 * c2 > 4 * fw
            /\ analysis.zone = "Center" <=> (2 * fw <= 3 * c2 /\ 3 * c2 <= 4 * fw)
            /\ \A b \in Peers :
                  Center2(b) >= c2
                      => ZoneRank(zoneOf(b, fw)) >= ZoneRank(analysis.zone)
            /\ \A z \in Zones : \E b \in Peers : zoneOf(b, fw) = z

\* C24 witness: the box of the scenario of section 8 is in the Right zone.
C24_Witness ==
    /\ analysis.zone = "Right"
    /\ analysis.box = ScenarioBox


\* The heights compared with the analysed one: every height of every frame
\* height, the scenario's included.
HeightPairs ==
    UNION {{<<h, fh>> : h \in 0..fh} : fh \in FrameSizes \cup {480}}

\* C25: the distance is max(0.5, 5 - 6 * heightRatio), is never less than
\* 0.5, and a box with a greater or equal heightRatio, in a frame of any
\* height, never gets a greater distance.
C25_DistanceMonotoneFloored ==
    analysis.zone # "" =>
        LET h == analysis.box.height
            fh == analysis.frameHeight
            d == analysis.distance
        IN  /\ d[2] > 0
            /\ FracLeq(Half, d)
            /\ IF 4 * h >= 3 * fh
               THEN FracLeq(d, Half)
               ELSE d[1] * fh = (5 * fh - 6 * h) * d[2]
            /\ \A p \in HeightPairs :
                  p[1] * fh >= h * p[2]
                      => FracLeq(distanceOf([x |-> 0, y |-> 0, width |-> 0,
                                             height |-> p[1]], p[2]), d)

\* C25 witness: a box as high as its frame is at the floor of 0.5, where
\* 5 - 6 * heightRatio is negative.
C25_Witness ==
    /\ analysis.zone # ""
    /\ analysis.box.height = analysis.frameHeight
    /\ analysis.distance = Half


(***************************************************************************)
(* Tick opportunities.  In SpecHistory the first chain's first inference   *)
(* is in flight at the start; its result changes the stable label from ""  *)
(* and the effect starts the second chain, whose first detect() call finds *)
(* the flag clear and issues the second inference.  So whenever two labels *)
(* have been pushed, the second chain has had one tick opportunity (taken) *)
(* and its pending animation frame is the opportunity after it.            *)
(***************************************************************************)

\* C26 as stated, for any frame-skip factor K >= 2: of K consecutive tick
\* opportunities only one issues an inference call, so the opportunity that
\* follows a taken one is discarded: the second tick of the second chain
\* issues no call.
C26_SkipsAfterTakenTick ==
    [][(Len(recentLabels) = 2 /\ Len(chains) = 2 /\ RafTick(2))
          => chains'[2].pc = "raf"]_vars

\* C26 amended: there is no frame-skip factor: no tick opportunity is
\* discarded before the frame and the busy flag are tested; every tick that
\* finds the frame present and the flag clear issues an inference call, the
\* first detect() call of a new chain included (a new chain waits for its
\* next animation frame only when it found the flag set).
C26_EveryFreeTickInfers ==
    [][/\ \A i \in DOMAIN chains :
             (RafTick(i) /\ videoRefCurrent /\ ~detectingRef)
                 => (chains'[i].pc = "await" /\ detectingRef')
       /\ (Len(chains') > Len(chains) /\ videoRefCurrent)
             => (Last(chains').pc = "await" \/ detectingRef')
       /\ \A i \in InFlight' : i \notin InFlight => detectingRef']_vars

\* C26 witness: the second chain's inference is in flight for the second
\* time in a row: two labels pushed, its tick after its first result taken.
C26_Witness ==
    /\ Len(recentLabels) = 2
    /\ Len(chains) = 2
    /\ chains[2].pc = "await"
    /\ chains[1].pc = "raf"


(***************************************************************************)
(* What a successful tick does with the stable label it computes.          *)
(***************************************************************************)

\* C27 as stated: every successful tick whose stable label differs from the
\* current stable label sets the stable label to it and calls speak() for
\* it, "nothing" included.
C27_ChangeUpdatesAndAnnounces ==
    [][\A i \in DOMAIN chains :
          (chains[i].pc = "await" /\ chains'[i].pc = "raf") =>
              \A predictions \in Predictions :
                  (Resolve(i, predictions)
                      /\ StableAfter(predictions) # state.stableLabel)
                  => /\ state'.stableLabel = StableAfter(predictions)
                     /\ Announces(chains[i].env, StableAfter(predictions))]_vars

\* What a successful tick of chain i leaves when it computes stable: the
\* label is compared with the stable label of the chain's closure.
TickOutcome(i, stable) ==
    LET env == chains[i].env
        text == Announcement(stable)
    IN  /\ stable # env.stableLabel => state'.stableLabel = stable
        /\ stable = env.stableLabel => state'.stableLabel = state.stableLabel
        /\ (stable = env.stableLabel \/ stable = "nothing")
              => UNCHANGED <<spoken, queue, lastAnnouncementTime>>
                 /\ state'.lastSpoken = state.lastSpoken
        /\ (stable # env.stableLabel /\ stable # "nothing")
              => /\ state'.status = text
                 /\ IF text # env.lastSpoken
                       /\ now - lastAnnouncementTime >= MIN_ANNOUNCEMENT_INTERVAL
                    THEN /\ spoken' = [text |-> text, at |-> now,
                                       prev |-> spoken.text]
                         /\ state'.lastSpoken = text
                    ELSE UNCHANGED <<spoken, queue, lastAnnouncementTime>>

\* C27 amended: every successful tick whose stable label differs from the
\* stable label its closure holds sets the stable label to it; it calls
\* speak() for it only when it is not "nothing" (the call is synthesized
\* unless speak() drops it); for "nothing", and for a label equal to the
\* closure's, nothing is announced.
C27_ChangeUpdatesAnnouncesObjects ==
    [][\A i \in DOMAIN chains :
          \/ chains[i].pc # "await"
          \/ chains'[i].pc # "raf"
          \/ \A predictions \in Predictions :
                \/ TickOutcome(i, StableAfter(predictions))
                \/ ~Resolve(i, predictions)]_vars

\* C27 witness: the first tick has changed the stable label to "nothing":
\* the status says so and the last synthesis is still that of the camera
\* start.
C27_Witness ==
    /\ recentLabels = <<"nothing">>
    /\ state.stableLabel = "nothing"
    /\ state.status = "Nothing detected"
    /\ spoken.text = CameraActivated


\* C28: a successful tick whose stable label equals the current stable
\* label (the one the last completed tick left) calls speak() for nothing,
\* makes no synthesis call and leaves the stable label, whichever chain
\* runs it and whatever renders came before.
C28_SameLabelIsSilent ==
    [][\A i \in DOMAIN chains :
          (chains[i].pc = "await" /\ chains'[i].pc = "raf") =>
              \A predictions \in Predictions :
                  (Resolve(i, predictions)
                      /\ StableAfter(predictions) = state.stableLabel)
                  => /\ ~Announces(chains[i].env, StableAfter(predictions))
                     /\ state'.stableLabel = state.stableLabel
                     /\ spoken' = spoken]_vars


(***************************************************************************)
(* What a successful inference pushes into the label history.              *)
(***************************************************************************)

\* The history after one push of label: appended, the oldest entry evicted
\* when the history was full.
PushedOne(label) ==
    /\ Last(recentLabels') = label
    /\ IF Len(recentLabels) < HistoryCapacity
       THEN recentLabels' = Append(recentLabels, label)
       ELSE /\ Len(recentLabels') = HistoryCapacity
            /\ \A k \in 1..(HistoryCapacity - 1) :
                  recentLabels'[k] = recentLabels[k + 1]

\* C29: every resolved inference pushes exactly one label into the history,
\* and for a result without predictions that label is "nothing"; nothing
\* but a resolved inference changes the history.
C29_OneLabelPerInference ==
    [][/\ \A i \in DOMAIN chains :
             (chains[i].pc = "await" /\ chains'[i].pc = "raf") =>
                 \A predictions \in Predictions :
                     Resolve(i, predictions) =>
                         /\ \E label \in Labels : PushedOne(label)
                         /\ predictions = <<>> => PushedOne("nothing")
       /\ recentLabels' # recentLabels =>
             \E i \in DOMAIN chains :
                 chains[i].pc = "await" /\ chains'[i].pc = "raf"]_vars

\* C29 witness: the history is full, its oldest label is an object and the
\* label pushed last is "nothing".
C29_Witness ==
    /\ Len(recentLabels) = HistoryCapacity
    /\ recentLabels[1] = "dog"
    /\ Last(recentLabels) = "nothing"

\* C30: the class name of a prediction whose probability is not strictly
\* greater than the threshold is never pushed: a pushed class name is that
\* of a prediction above the threshold, and a result in which no prediction
\* is above it pushes "nothing".
C30_BelowThresholdNotPushed ==
    [][\A i \in DOMAIN chains :
          (chains[i].pc = "await" /\ chains'[i].pc = "raf") =>
              \A predictions \in Predictions :
                  Resolve(i, predictions) =>
                      LET above == {k \in DOMAIN predictions :
                                      predictions[k].probability
                                          > ProbabilityThresholdPct}
                          label == Last(recentLabels')
                      IN  /\ label # "nothing" =>
                                \E k \in above : predictions[k].className = label
                          /\ above = {} => label = "nothing"]_vars

\* C30 witness: labels of both kinds have been pushed and an inference is in
\* flight whose result may be at the threshold.
C30_Witness ==
    /\ InFlight # {}
    /\ recentLabels = <<"dog", "dog", "nothing">>


(***************************************************************************)
(* The label history against the record of all pushes.                     *)
(***************************************************************************)
Min(a, b) == IF a <= b THEN a ELSE b

\* The last n entries of seq.
LastN(seq, n) == SubSeq(seq, Len(seq) - n + 1, Len(seq))

\* C31: after k successful ticks the label history is the sequence of the
\* last min(k, HistoryCapacity) labels pushed, in push order (for every k
\* the record of pushes covers).
C31_HistoryIsLastPushes ==
    Len(pushLog) < MaxPushes =>
        recentLabels = LastN(pushLog, Min(Len(pushLog), HistoryCapacity))

\* C31 witness: two labels have been evicted, the oldest label kept is not
\* the first one pushed, and both chains have pushed.
C31_Witness ==
    /\ Len(pushLog) = HistoryCapacity + 2
    /\ Len(recentLabels) = HistoryCapacity
    /\ recentLabels[1] # pushLog[1]
    /\ Len(chains) = 2

\* C32: once speak() has synthesized a text, lastSpoken is that text and the
\* timer is not before the time of that call, and the next speak() call of
\* every pending callback is checked against them: a call with the text
\* just synthesized, or made within the interval, synthesizes nothing.
C32_NextCallSeesNewValues ==
    spoken # NoSynthesis =>
        /\ state.lastSpoken = spoken.text
        /\ lastAnnouncementTime >= spoken.at
        /\ \A c \in PossibleCalls :
              (c.text = state.lastSpoken \/ ~IntervalElapsed(c))
                  => ~Synthesized(c)

\* l reaches the majority threshold length * ratio in arr.
MeetsThreshold(arr, l, r) == Count(arr, l) * 100 >= r * Len(arr)

\* The scenario of the stable-label rule.
ScenarioHistory == <<"dog", "dog", "dog", "cat", "nothing">>

\* C33: for a non-empty history in which one label occurs more often than
\* every other label and its count reaches length * ratio, getStableLabel
\* returns that label; it returns "dog" for the scenario history.
C33_ConvergedLabelReturned ==
    state.stableLabel # "" =>
        /\ \A r \in RatioPct, l \in PureLabels :
              (Plurality(recentLabels, l) /\ MeetsThreshold(recentLabels, l, r))
                  => state.stableLabel = l
        /\ recentLabels = ScenarioHistory => state.stableLabel = "dog"

\* C33 witness: the stable label of the scenario history has been computed.
C33_Witness ==
    /\ recentLabels = ScenarioHistory
    /\ state.stableLabel = "dog"
    /\ MeetsThreshold(recentLabels, "dog", 40)

(***************************************************************************)
(* The detection loop under the browser's scheduling, from the state       *)
(* SpecHistory reaches when the camera has shown a dog for MaxPushes        *)
(* frames: the first result made "dog" the stable label and started the    *)
(* second chain (its announcement fell within the interval of the          *)
(* camera-start phrase) and the second recognition session, the history   *)
(* is full, both chains wait for their animation frame.  A requested       *)
(* animation frame is delivered; no classification rejects and the frame   *)
(* stays available.                                                        *)
(***************************************************************************)
DogSeenState == [StartedState EXCEPT !.stableLabel = "dog",
                                     !.status = Announcement("dog")]

InitLoop ==
    /\ state = DogSeenState
    /\ modelLoad = "ready"
    /\ cameraReq = {}
    /\ detectingRef = FALSE
    /\ recentLabels = [k \in 1..HistoryCapacity |-> "dog"]
    /\ lastAnnouncementTime = StartTime
    /\ now = StartTime
    /\ chains = <<[env |-> Env(StartedState), pc |-> "raf"],
                  [env |-> Env(DogSeenState), pc |-> "raf"]>>
    /\ sessions = <<[env |-> Env(InitialState), status |-> "stopping"],
                    [env |-> Env(DogSeenState), status |-> "listening"]>>
    /\ queue = <<[text |-> CameraActivated, voice |-> NoVoice]>>
    /\ spoken = [text |-> CameraActivated, at |-> StartTime, prev |-> ""]
    /\ analysis = NoAnalysis
    /\ pushLog = [k \in 1..MaxPushes |-> "dog"]
    /\ page = InitialPage(PlainTexts)
    /\ host = FullHost

SpecLoop ==
    /\ InitLoop
    /\ [][NextHistory]_vars
    /\ \A i \in 1..MaxChains : WF_vars(i \in DOMAIN chains /\ RafTick(i))

\* Every inference call eventually resolves.
InferencesResolve ==
    \A i \in 1..MaxChains :
        (i \in DOMAIN chains /\ chains[i].pc = "await")
            ~> (i \in DOMAIN chains /\ chains[i].pc = "raf")

\* C34: when every inference call eventually resolves and the frame stays
\* available, the busy flag is clear whenever no inference is in flight,
\* every chain always has its next step pending (an animation frame or an
\* inference), and inference calls are issued again and again, for ever.
C34_LoopNeverStalls ==
    InferencesResolve =>
        /\ [](InFlight = {} => ~detectingRef)
        /\ [](\A i \in DOMAIN chains : chains[i].pc \in {"raf", "await"})
        /\ []<>(InFlight # {})

\* C34 witness: the scene has changed since the start of the loop (the
\* history holds "nothing"), no inference is in flight and every chain
\* waits for its animation frame.
C34_Witness ==
    /\ Count(recentLabels, "nothing") > 0
    /\ InFlight = {}
    /\ Len(chains) >= 2
    /\ \A i \in DOMAIN chains : chains[i].pc = "raf"


(***************************************************************************)
(* One polling chain, one utterance, one command.                          *)
(***************************************************************************)

\* The chains that still tick: an animation frame or an inference pending.
Alive == {i \in DOMAIN chains : chains[i].pc \in {"raf", "await"}}

\* C35: at any time at most one polling chain is alive: a re-run of the
\* detection effect leaves no earlier chain ticking with the stable label
\* and last-spoken text of its render.
C35_OneChainAlive ==
    Cardinality(Alive) <= 1

\* C36: the engine never holds more than one pending or speaking utterance:
\* every synthesis call is preceded by a cancel, so the step that makes one
\* leaves the new utterance alone in the engine.
C36_OneUtteranceInEngine ==
    [][/\ Len(queue') <= 1
       /\ spoken' # spoken =>
             /\ Len(queue') = 1
             /\ queue'[1].text = spoken'.text]_vars

\* C36 witness: a second synthesis call has been made, two clock steps
\* after the start, and the engine holds its utterance and no other.
C36_Witness ==
    /\ spoken.prev # ""
    /\ spoken.at = StartTime + 2 * ClockStep
    /\ Len(queue) = 1
    /\ queue[1].text = spoken.text

\* The traces of the three commands in a step: the query and the stop
\* command synthesize their own text or nothing; only the stop command
\* empties the engine or resets the timer without a synthesis call; only
\* the start command requests the camera.
NoStopTrace ==
    /\ spoken' # spoken => spoken'.text # StoppedSpeaking
    /\ spoken' = spoken =>
          (queue' = queue /\ lastAnnouncementTime' = lastAnnouncementTime)

NoQueryTrace == spoken' # spoken => spoken'.text = StoppedSpeaking

NoStartTrace == cameraReq' = cameraReq

\* What the handling of transcript may leave, by the priority query over
\* stop over start: the traces of one command and none of the others.
ByPriority(transcript) ==
    /\ transcript.query => (NoStopTrace /\ NoStartTrace)
    /\ (~transcript.query /\ transcript.stop) =>
          (NoQueryTrace /\ NoStartTrace)
    /\ (~transcript.query /\ ~transcript.stop) => UNCHANGED speechVars

\* The step writes what no onresult handler writes: it is a step of another
\* callback.
OtherCallback ==
    \/ now' # now
    \/ modelLoad' # modelLoad
    \/ chains' # chains
    \/ sessions' # sessions
    \/ state'.isStarted # state.isStarted
    \/ state'.voice # state.voice

\* C37: the handling of an utterance executes one command, chosen by the
\* priority query over stop over start: an utterance with a query phrase
\* makes the query's speak() call and nothing else (with "stop speaking" in
\* it too, no cancel and no timer reset happen: the engine loses its
\* utterance only to the answer itself), one with "stop speaking" and
\* "start camera" stops and requests no camera.
C37_OneCommandByPriority ==
    [][\/ OtherCallback
       \/ \A transcript \in Transcripts :
             \/ ByPriority(transcript)
             \/ \A i \in DOMAIN sessions : ~OnResult(i, transcript)]_vars

\* C37 witness: a query has been answered within the interval now running,
\* its utterance is in the engine and a session is listening with the
\* camera not started: a stop executed for an utterance with both phrases
\* would empty the engine, a start would request the camera.
C37_Witness ==
    /\ Listening # {}
    /\ spoken.text = NothingSeen
    /\ queue = <<[text |-> NothingSeen, voice |-> state.voice]>>
    /\ now - lastAnnouncementTime < MIN_ANNOUNCEMENT_INTERVAL
    /\ ~state.isStarted /\ cameraReq = {}

\* Chain i completes a tick in the step.
TickCompletes(i) == chains[i].pc = "await" /\ chains'[i].pc = "raf"

\* C38: a tick that changes the stable label within the interval updates
\* the label and synthesizes nothing, and while the stable label stays the
\* one whose announcement was dropped no later tick announces it.
C38_DroppedNeverAnnounced ==
    [][\A i \in DOMAIN chains :
          TickCompletes(i) =>
              /\ (state'.stableLabel # state.stableLabel
                    /\ Throttled(now, lastAnnouncementTime))
                  => spoken' = spoken
              /\ (state'.stableLabel = state.stableLabel
                    /\ spoken.text # Announcement(state.stableLabel))
                  => spoken' = spoken]_vars


(***************************************************************************)
(* The Lang component on its own: the language button, the buttons of the  *)
(* dropdown and the translation requests, from every document of MaxNodes  *)
(* text nodes.                                                             *)
(***************************************************************************)
InitLang ==
    /\ state = InitialState
    /\ modelLoad = "backend"
    /\ cameraReq = {}
    /\ detectingRef = FALSE
    /\ recentLabels = <<>>
    /\ lastAnnouncementTime = 0
    /\ now = StartTime
    /\ chains = <<>>
    /\ sessions = <<>>
    /\ queue = <<>>
    /\ spoken = NoSynthesis
    /\ analysis = NoAnalysis
    /\ pushLog = <<>>
    /\ host = FullHost
    /\ page \in {InitialPage(texts) : texts \in [1..MaxNodes -> NodeTexts]}

NextLang ==
    \/ ToggleDropdown
    \/ \E l \in Languages : TranslateText(l)
    \/ \E k \in DOMAIN page.calls :
          \E text \in page.calls[k].pending, response \in Responses :
              FetchSettles(k, text, response)

SpecLang == InitLang /\ [][NextLang]_vars

\* The translations of call k once its request for text has settled with
\* response.
SettledTranslations(k, text, response) ==
    (text :> Translation(text, response)) @@ page.calls[k].translations

\* C39: every translateText call ends with isTranslating false and the
\* dropdown closed, whichever of its requests reject or carry no content
\* (a call in flight waits for nothing but its requests), and a text whose
\* request failed keeps its value: the nodes that show it are not changed
\* by the call.
C39_EndsCleanFailedTextKept ==
    [][/\ \A k \in DOMAIN page'.calls : page'.calls[k].pending # {}
       /\ Len(page'.calls) < Len(page.calls) =>
             (~page'.isTranslating /\ ~page'.showDropdown)
       /\ \A k \in DOMAIN page.calls :
             \A text \in page.calls[k].pending, response \in Responses :
                 FetchSettles(k, text, response) =>
                     \A n \in DOMAIN page.nodes :
                         LET translations == SettledTranslations(k, text, response)
                             shown == trim(page.nodes[n])
                         IN  (shown \in DOMAIN translations
                                 /\ translations[shown] = shown)
                             => page'.nodes[n] = page.nodes[n]]_vars

\* C40: when the language selected last is English and no translateText
\* call is in flight, whatever languages were selected before, every text
\* node has the text it had at the mount.
C40_EnglishRestoresMountTexts ==
    (page.selected = "en" /\ page.calls = <<>>) =>
        \A n \in DOMAIN page.originalTexts :
            page.nodes[n] = page.originalTexts[n]

====
